---- MODULE Spec2Model ----
(***************************************************************************)
(* Semaphore over plonky2: an AccessSet (a Merkle tree of public keys),    *)
(* make_signal (prove membership and nullifier) and verify_signal.         *)
(*                                                                         *)
(* Digests are symbolic terms: <<n>> is a base digest (a key or a topic),  *)
(* <<a, b>> is the Poseidon hash of the eight elements a || b.  The hash   *)
(* is collision free in this model.  A proof is the statement it proves:   *)
(* the circuit it was built for and the public inputs bound into it; the   *)
(* backend accepts a proof exactly for that statement.                     *)
(***************************************************************************)
EXTENDS Integers, Sequences, FiniteSets, TLC

VARIABLES accessSet, built, pc, prevSignal, lastSignal, lastCheck

vars == <<accessSet, built, pc, prevSignal, lastSignal, lastCheck>>

\* ---------------------------------------------------------------- bounds
MaxLeaves == 4
MaxCapHeight == 1

\* ------------------------------------------------------ program constants
DigestLen == 4
UsizeBits == 64

\* ------------------------------------------------------------ digests
ZeroDigest == <<0>>

PrivateKeys == {<<1>>, <<2>>}

Topics == {ZeroDigest, <<1>>}

\* PoseidonHash::hash_no_pad(&[a, b].concat()): eight elements in, one digest out.
Hash(a, b) == <<a, b>>

\* The four field elements of a digest, in order.
Elements(d) == [k \in 1..DigestLen |-> <<d, k>>]

PublicKey(sk) == Hash(sk, ZeroDigest)

RECURSIVE Pow2(_)
Pow2(n) == IF n = 0 THEN 1 ELSE 2 * Pow2(n - 1)

\* usize::trailing_zeros
RECURSIVE TrailingZeros(_)
TrailingZeros(n) ==
    IF n = 0 THEN UsizeBits
    ELSE IF n % 2 = 1 THEN 0
    ELSE 1 + TrailingZeros(n \div 2)

IsPowerOfTwo(n) == n > 0 /\ Pow2(TrailingZeros(n)) = n

\* ------------------------------------------------------------ Merkle tree
\* Digest of the subtree over leaves[lo..hi] (hi - lo + 1 a power of two).  A
\* four-element leaf is its own digest (hash_or_noop); an inner node is the
\* hash of its two children.
RECURSIVE SubtreeRoot(_, _, _)
SubtreeRoot(leaves, lo, hi) ==
    IF lo = hi THEN leaves[lo]
    ELSE LET mid == lo + (hi - lo + 1) \div 2
         IN  Hash(SubtreeRoot(leaves, lo, mid - 1), SubtreeRoot(leaves, mid, hi))

\* MerkleTree::new(leaves, cap_height): the cap holds the 2^cap_height subtree roots.
MerkleTreeNew(leaves, cap_height) ==
    LET size == Len(leaves) \div Pow2(cap_height)
    IN  [leaves |-> leaves,
         cap    |-> [j \in 1..Pow2(cap_height) |->
                        SubtreeRoot(leaves, (j - 1) * size + 1, j * size)]]

\* MerkleTree::new asserts a power-of-two leaf count and a cap no higher than the tree.
MerkleTreeNewPanics(leaves, cap_height) ==
    \/ ~IsPowerOfTwo(Len(leaves))
    \/ cap_height > TrailingZeros(Len(leaves))

\* AccessSet::tree_height
tree_height(A) == TrailingZeros(Len(A.leaves))

CapHeight(A) == TrailingZeros(Len(A.cap))

\* MerkleTree::prove(leaf_index): the siblings from the leaf up to the cap.
MerkleProve(A, leaf_index) ==
    [l \in 1..(tree_height(A) - CapHeight(A)) |->
        LET size == Pow2(l - 1)
            blk  == leaf_index \div size
            sib  == IF blk % 2 = 0 THEN blk + 1 ELSE blk - 1
        IN  SubtreeRoot(A.leaves, sib * size + 1, (sib + 1) * size)]

\* ------------------------------------------------------------ the circuit
\* split_le with the bits most significant first.
split_le_msb_first(integer, num_bits) ==
    [k \in 1..num_bits |-> (integer \div Pow2(num_bits - k)) % 2]

\* CircuitBuilder::split_le(integer, num_bits): the bits, least significant first.
split_le(integer, num_bits) ==
    [k \in 1..num_bits |-> (integer \div Pow2(k - 1)) % 2]

\* The gadget constrains the integer to be the sum of its bits; with no bits it adds
\* no constraint.
SplitLeHolds(integer, num_bits) ==
    num_bits = 0 \/ integer < Pow2(num_bits)

\* The loop of verify_merkle_proof: the running digest after levels k..Len(siblings);
\* it pairs bits with siblings (zip), the digest on the right when the bit is set.
RECURSIVE MerkleWalk(_, _, _, _)
MerkleWalk(state, bits, siblings, k) ==
    IF k > Len(siblings) \/ k > Len(bits) THEN state
    ELSE MerkleWalk(IF bits[k] = 1 THEN Hash(siblings[k], state)
                                   ELSE Hash(state, siblings[k]),
                    bits, siblings, k + 1)

\* semaphore_circuit: the circuit's shape depends on the access set through
\* tree_height alone (the number of sibling targets and of index bits).
semaphore_circuit(A) == [height |-> tree_height(A)]

\* fill_semaphore_targets: the values set in the partial witness.  The sibling
\* targets are zipped with the proof's siblings, so only as many as the proof has
\* are set.
fill_semaphore_targets(A, private_key, topic, public_key_index) ==
    [merkle_root      |-> A.cap[1],
     private_key      |-> private_key,
     topic            |-> topic,
     public_key_index |-> public_key_index,
     siblings         |-> MerkleProve(A, public_key_index)]

\* Gate 2 hashing topic || private_key.
should_be_nullifier_swapped(w) == Hash(w.topic, w.private_key)

\* Gate 2: the nullifier target is connected to hash(private_key || topic).
should_be_nullifier(w) == Hash(w.private_key, w.topic)

\* The circuit registering the leaf index as a fourth public input.
ProofPublicInputs_with_index(w) ==
    Elements(w.merkle_root) \o Elements(Hash(w.private_key, w.topic))
        \o Elements(w.topic) \o <<<<<<w.public_key_index>>, 1>>>>

\* The values of the registered public inputs, in registration order:
\* merkle_root, nullifier, topic.
ProofPublicInputs(w) ==
    Elements(w.merkle_root) \o Elements(should_be_nullifier(w)) \o Elements(w.topic)

\* The circuit without gate 1.
CircuitSatisfied_no_merkle_gate(circuit, w) ==
    /\ Len(w.siblings) = circuit.height
    /\ SplitLeHolds(w.public_key_index, circuit.height)

\* The witness satisfies the circuit: every sibling target is set, the index fits
\* its bits, and gate 1 (verify_merkle_proof against the one-element cap) holds.
CircuitSatisfied(circuit, w) ==
    /\ Len(w.siblings) = circuit.height
    /\ SplitLeHolds(w.public_key_index, circuit.height)
    /\ MerkleWalk(Hash(w.private_key, ZeroDigest),
                  split_le(w.public_key_index, circuit.height),
                  w.siblings, 1) = w.merkle_root

NoProof == [circuit |-> [height |-> 0], public_inputs |-> <<>>]

NoSignal == [nullifier |-> ZeroDigest, proof |-> NoProof]

\* The nullifier computed from the private key alone.
MakeNullifier_no_topic(private_key, topic) == Hash(private_key, ZeroDigest)

\* The nullifier make_signal computes outside the circuit.
MakeNullifier(private_key, topic) == Hash(private_key, topic)

\* AccessSet::make_signal on an index MerkleTree::prove accepts: Ok((signal, vd)),
\* or the error of data.prove(pw)?.
make_signal(A, private_key, topic, public_key_index) ==
    LET nullifier == MakeNullifier(private_key, topic)
        circuit   == semaphore_circuit(A)
        w         == fill_semaphore_targets(A, private_key, topic, public_key_index)
    IN  IF CircuitSatisfied(circuit, w)
        THEN [result |-> "Ok",
              signal |-> [nullifier |-> nullifier,
                          proof |-> [circuit |-> circuit,
                                     public_inputs |-> ProofPublicInputs(w)]],
              vd     |-> circuit,
              path   |-> w.siblings]
        ELSE [result |-> "Err", signal |-> NoSignal, vd |-> circuit,
              path   |-> w.siblings]

\* The public inputs verify_signal rebuilds: every cap element, the nullifier, the topic.
RECURSIVE Flatten(_)
Flatten(ds) == IF ds = <<>> THEN <<>> ELSE Elements(Head(ds)) \o Flatten(Tail(ds))

VerifyPublicInputs(A, topic, signal) ==
    Flatten(A.cap) \o Elements(signal.nullifier) \o Elements(topic)

\* A backend call that checks the proof against the circuit and not against the
\* public inputs handed to it.
BackendVerify_proof_only(verifier_data, proof, public_inputs) ==
    proof.circuit = verifier_data

\* verifier_data.verify(ProofWithPublicInputs { proof, public_inputs })
BackendVerify(verifier_data, proof, public_inputs) ==
    /\ proof.circuit = verifier_data
    /\ proof.public_inputs = public_inputs

\* verify_signal remembering the nullifier it accepted last and refusing it again.
verify_signal_once(A, topic, signal, verifier_data) ==
    /\ BackendVerify(verifier_data, signal.proof, VerifyPublicInputs(A, topic, signal))
    /\ ~(lastCheck.called /\ lastCheck.result
            /\ lastCheck.signal.nullifier = signal.nullifier)

\* AccessSet::verify_signal: TRUE for Ok(()).
verify_signal(A, topic, signal, verifier_data) ==
    BackendVerify(verifier_data, signal.proof, VerifyPublicInputs(A, topic, signal))

\* ------------------------------------------------------------ the state
\* accessSet   the AccessSet the program holds (NoSet before the first one is built)
\* built       the last construction: what it was given and how it ended
\* pc          "run", or "panic" once a call has panicked (the process is gone)
\* lastSignal  the last make_signal call: its arguments and its outcome
\* prevSignal  the last call before it that returned a signal
\* lastCheck   the verify_signal call made last, if one was made since the last
\*             Build or make_signal
NoSet == [leaves |-> <<>>, cap |-> <<>>]

NoCall ==
    [set |-> NoSet, private_key |-> ZeroDigest, topic |-> ZeroDigest, index |-> 0,
     result |-> "none", signal |-> NoSignal, vd |-> [height |-> 0], path |-> <<>>]

NoCheck ==
    [called |-> FALSE, set |-> NoSet, topic |-> ZeroDigest, signal |-> NoSignal,
     vd |-> [height |-> 0], result |-> FALSE, again |-> FALSE, before |-> FALSE]

\* The public key lists an access set is built from, of every length up to
\* MaxLeaves: the two members in turn, or the second member at every leaf.
LeafLists ==
    UNION {{[i \in 1..n |-> PublicKey(IF i % 2 = 1 THEN <<1>> ELSE <<2>>)],
            [i \in 1..n |-> PublicKey(<<2>>)]} : n \in 1..MaxLeaves}

\* The nullifiers a caller may put into a signal it passes on.
Nullifiers == {Hash(sk, t) : sk \in PrivateKeys, t \in Topics}

Init ==
    /\ accessSet = NoSet
    /\ built = [public_keys |-> <<>>, cap_height |-> 0, result |-> "none"]
    /\ pc = "run"
    /\ prevSignal = NoCall
    /\ lastSignal = NoCall
    /\ lastCheck = NoCheck

\* AccessSet(MerkleTree::new(public_keys, cap_height)).  A panic ends the process:
\* nothing it held is left.
Build(public_keys, cap_height) ==
    /\ pc = "run"
    /\ IF MerkleTreeNewPanics(public_keys, cap_height)
       THEN /\ pc' = "panic"
            /\ built' = [public_keys |-> public_keys, cap_height |-> cap_height,
                         result |-> "panic"]
            /\ accessSet' = NoSet
            /\ prevSignal' = NoCall
            /\ lastSignal' = NoCall
            /\ lastCheck' = NoCheck
       ELSE /\ accessSet' = MerkleTreeNew(public_keys, cap_height)
            /\ built' = [public_keys |-> public_keys, cap_height |-> cap_height,
                         result |-> "Ok"]
            /\ lastCheck' = NoCheck
            /\ UNCHANGED <<pc, prevSignal, lastSignal>>

\* A call of make_signal on the current access set.  An index outside the leaves
\* panics in MerkleTree::prove: fill_semaphore_targets has no error to return.
\* prevSignal keeps the last signal made before this call.
MakeSignal(private_key, topic, public_key_index) ==
    /\ pc = "run"
    /\ accessSet # NoSet
    /\ LET call == [set |-> accessSet, private_key |-> private_key,
                    topic |-> topic, index |-> public_key_index]
       IN  IF public_key_index >= Len(accessSet.leaves)
           THEN /\ lastSignal' =
                      call @@ [result |-> "panic", signal |-> NoSignal,
                               vd |-> semaphore_circuit(accessSet), path |-> <<>>]
                /\ pc' = "panic"
                /\ prevSignal' = NoCall
                /\ lastCheck' = NoCheck
           ELSE /\ lastSignal' =
                      call @@ make_signal(accessSet, private_key, topic,
                                          public_key_index)
                /\ prevSignal' = IF lastSignal.result = "Ok" THEN lastSignal
                                 ELSE prevSignal
                /\ lastCheck' = NoCheck
                /\ UNCHANGED pc
    /\ UNCHANGED <<accessSet, built>>

\* A call of verify_signal on the current access set, with the signal and the
\* verifier data the last make_signal returned; the caller may have replaced the
\* nullifier.  again: the call before it had the same arguments; before: what that
\* call returned.
VerifySignal(topic, nullifier) ==
    /\ pc = "run"
    /\ accessSet # NoSet
    /\ lastSignal.result = "Ok"
    /\ LET signal == [lastSignal.signal EXCEPT !.nullifier = nullifier]
           vd     == lastSignal.vd
           again  == /\ lastCheck.called
                     /\ lastCheck.set = accessSet
                     /\ lastCheck.topic = topic
                     /\ lastCheck.signal = signal
                     /\ lastCheck.vd = vd
       IN  lastCheck' =
               [called |-> TRUE, set |-> accessSet, topic |-> topic,
                signal |-> signal, vd |-> vd,
                result |-> verify_signal(accessSet, topic, signal, vd),
                again |-> again, before |-> again /\ lastCheck.result]
    /\ UNCHANGED <<accessSet, built, pc, prevSignal, lastSignal>>

MakeSignalCall ==
    \E sk \in PrivateKeys, t \in Topics, i \in 0..MaxLeaves : MakeSignal(sk, t, i)

VerifySignalCall ==
    \E t \in Topics, n \in Nullifiers : VerifySignal(t, n)

Next ==
    \/ \E pks \in LeafLists : Build(pks, 0)
    \/ MakeSignalCall
    \/ VerifySignalCall

Spec == Init /\ [][Next]_vars

\* The same program, with the cap height of MerkleTree::new left to the caller.
NextCap ==
    \/ \E pks \in LeafLists, c \in 0..MaxCapHeight : Build(pks, c)
    \/ MakeSignalCall
    \/ VerifySignalCall

SpecCap == Init /\ [][NextCap]_vars

\* ------------------------------------------------------------ the claims
\* The leaf at the call's index is the public key of the call's private key.
IsMember(r) ==
    /\ r.index < Len(r.set.leaves)
    /\ r.set.leaves[r.index + 1] = Hash(r.private_key, ZeroDigest)

Returned(r) == r.result \in {"Ok", "Err"}

\* lastCheck is a verify_signal call with exactly what the last make_signal was
\* given and returned, on the access set it was made on.
HonestCheck ==
    /\ lastCheck.called
    /\ lastCheck.set = lastSignal.set
    /\ lastCheck.topic = lastSignal.topic
    /\ lastCheck.signal = lastSignal.signal

\* C1: completeness.  On an access set of 2^h leaves (h = 0 included), make_signal
\* with a member's private key, any topic and the member's index returns a signal,
\* and verify_signal of that signal with the same topic on the same set succeeds.
C1_Completeness ==
    /\ \A r \in {prevSignal, lastSignal} :
          (Returned(r) /\ IsMember(r)) => r.result = "Ok"
    /\ (HonestCheck /\ IsMember(lastSignal)) => lastCheck.result

\* A single-leaf signal verified, after a signal made at the last leaf of a taller tree.
C1_Witness ==
    /\ HonestCheck /\ lastCheck.result
    /\ Len(lastSignal.set.leaves) = 1
    /\ prevSignal.result = "Ok"
    /\ tree_height(prevSignal.set) = 2
    /\ prevSignal.index = 3

\* C2: soundness.  verify_signal fails when the signal's nullifier is not
\* Hash(privateKey || topic) of the make_signal call, or the topic differs from the
\* one the signal was made for, or the access set's root commitment differs.
C2_Soundness ==
    (/\ lastCheck.called
     /\ \/ lastCheck.signal.nullifier # Hash(lastSignal.private_key, lastSignal.topic)
        \/ lastCheck.topic # lastSignal.topic
        \/ lastCheck.set.cap # lastSignal.set.cap)
    => ~lastCheck.result

\* An untouched signal refused on another access set of the same height.
C2_Witness ==
    /\ lastCheck.called /\ ~lastCheck.result
    /\ lastCheck.signal = lastSignal.signal
    /\ lastCheck.topic = lastSignal.topic
    /\ lastCheck.set.cap # lastSignal.set.cap
    /\ tree_height(lastCheck.set) = tree_height(lastSignal.set)
    /\ tree_height(lastCheck.set) = 2

\* C3: nullifier determinism.  Two signals made with the same private key and topic
\* carry the same nullifier, Hash(privateKey || topic), whatever the access set and
\* the index; two made with the same private key and different topics carry
\* different nullifiers.
C3_NullifierDeterminism ==
    (prevSignal.result = "Ok" /\ lastSignal.result = "Ok"
        /\ prevSignal.private_key = lastSignal.private_key)
    => /\ prevSignal.topic = lastSignal.topic =>
             /\ prevSignal.signal.nullifier = lastSignal.signal.nullifier
             /\ lastSignal.signal.nullifier
                    = Hash(lastSignal.private_key, lastSignal.topic)
       /\ prevSignal.topic # lastSignal.topic =>
             prevSignal.signal.nullifier # lastSignal.signal.nullifier

\* The same key and topic signalled twice, on different sets at different indices.
C3_Witness ==
    /\ prevSignal.result = "Ok" /\ lastSignal.result = "Ok"
    /\ prevSignal.private_key = lastSignal.private_key
    /\ prevSignal.topic = lastSignal.topic
    /\ prevSignal.set # lastSignal.set
    /\ prevSignal.index # lastSignal.index

\* C4: the public inputs verify_signal rebuilds for an access set (cap elements,
\* nullifier, topic) are, in count and order, the public inputs the circuit
\* registers and fill_semaphore_targets assigns for that set, whatever the cap size.
C4_PublicInputAgreement ==
    Returned(lastSignal) =>
        VerifyPublicInputs(lastSignal.set, lastSignal.topic,
            [nullifier |-> Hash(lastSignal.private_key, lastSignal.topic),
             proof |-> NoProof])
        = ProofPublicInputs(fill_semaphore_targets(lastSignal.set,
              lastSignal.private_key, lastSignal.topic, lastSignal.index))

\* C5: when the leaf at the index is not the public key of the private key,
\* make_signal fails with the proof construction error and returns no signal.
C5_NonMemberRejected ==
    \A r \in {prevSignal, lastSignal} :
        (Returned(r) /\ ~IsMember(r)) => (r.result = "Err" /\ r.signal = NoSignal)

\* A member's key refused at an index where another member sits, in a tree of height 2.
C5_Witness ==
    /\ lastSignal.result = "Err"
    /\ tree_height(lastSignal.set) = 2
    /\ \E j \in 1..Len(lastSignal.set.leaves) :
          lastSignal.set.leaves[j] = Hash(lastSignal.private_key, ZeroDigest)

\* C6: building an access set from a leaf count that is not a power of two fails
\* with InvalidSetSizeError, and tree_height is log2 of the leaf count of every
\* access set there is.
C6_InvalidSetSize ==
    /\ (built.result # "none" /\ ~IsPowerOfTwo(Len(built.public_keys)))
          => built.result = "InvalidSetSizeError"
    /\ accessSet # NoSet => Pow2(tree_height(accessSet)) = Len(accessSet.leaves)

\* C7: for an index inside the leaves the authentication path assigned has length
\* tree_height; for an index outside them make_signal returns IndexOutOfRangeError.
C7_IndexRange ==
    lastSignal.result # "none" =>
        /\ lastSignal.index < Len(lastSignal.set.leaves)
              => Len(lastSignal.path) = tree_height(lastSignal.set)
        /\ lastSignal.index >= Len(lastSignal.set.leaves)
              => lastSignal.result = "IndexOutOfRangeError"

\* C8: index privacy.  Two signals made on the same access set with the same private
\* key and topic have the same public inputs bound into the proof and the same
\* verifier data, whatever the indices they were made at.
C8_IndexPrivacy ==
    (/\ prevSignal.result = "Ok" /\ lastSignal.result = "Ok"
     /\ prevSignal.set = lastSignal.set
     /\ prevSignal.private_key = lastSignal.private_key
     /\ prevSignal.topic = lastSignal.topic)
    => /\ prevSignal.signal.proof.public_inputs = lastSignal.signal.proof.public_inputs
       /\ prevSignal.vd = lastSignal.vd
       /\ lastSignal.signal.proof.public_inputs
              = Flatten(lastSignal.set.cap)
                    \o Elements(Hash(lastSignal.private_key, lastSignal.topic))
                    \o Elements(lastSignal.topic)

\* The same member proving from two different leaves that hold its public key.
C8_Witness ==
    /\ prevSignal.result = "Ok" /\ lastSignal.result = "Ok"
    /\ prevSignal.set = lastSignal.set
    /\ prevSignal.private_key = lastSignal.private_key
    /\ prevSignal.topic = lastSignal.topic
    /\ prevSignal.index # lastSignal.index

\* C9: the nullifier of a returned signal is the nullifier public input bound into
\* its proof (the second digest of the public inputs).
C9_NullifierConsistency ==
    \A r \in {prevSignal, lastSignal} :
        r.result = "Ok" =>
            SubSeq(r.signal.proof.public_inputs, DigestLen + 1, 2 * DigestLen)
                = Elements(r.signal.nullifier)

\* A signal returned for a topic that is not the zero digest.
C9_Witness ==
    /\ lastSignal.result = "Ok"
    /\ lastSignal.topic # ZeroDigest
    /\ tree_height(lastSignal.set) = 1

====
